---- MODULE Spec2Model ----
(***************************************************************************)
(* Model of summon-python: locating the project configuration file,        *)
(* resolving the project / extra / test modules from it, and building the  *)
(* invocations of the external tools (pytest, mypy, flake8, pylint, black, *)
(* isort, coverage).                                                       *)
(*                                                                         *)
(* A Python str is a sequence of one-character strings, so that replace,   *)
(* join, glob matching and sorted() are computed and not assumed.          *)
(***************************************************************************)
EXTENDS Integers, Sequences, FiniteSets, TLC

(***************************************************************************)
(* Bounds of the model.                                                    *)
(***************************************************************************)
\* The directory chain is 0 (file-system root) .. MaxDepth (the working
\* directory); the parent of directory d is d - 1.
MaxDepth == 1

\* Exit statuses an external tool may return: 0 .. MaxExitStatus.
MaxExitStatus == 1

(***************************************************************************)
(* Strings.                                                                *)
(***************************************************************************)
\* The characters used by the model, in code point order (the order that
\* Python's str comparison, and therefore sorted(), uses).
Alphabet ==
    << "*", ",", "-", ".", "/", "8", "=", "_", "a", "b", "c", "e", "f", "g", "h",
       "i", "k", "l", "m", "n", "o", "p", "q", "r", "s", "t", "v", "w", "x",
       "y" >>

Ord(c) == CHOOSE i \in 1..Len(Alphabet) : Alphabet[i] = c

\* s < t for Python strings.
RECURSIVE StrLess(_, _)
StrLess(s, t) ==
    IF t = <<>> THEN FALSE
    ELSE IF s = <<>> THEN TRUE
    ELSE IF Head(s) = Head(t) THEN StrLess(Tail(s), Tail(t))
    ELSE Ord(Head(s)) < Ord(Head(t))

\* sep.join(strs)
RECURSIVE join(_, _)
join(sep, strs) ==
    IF strs = <<>> THEN <<>>
    ELSE IF Len(strs) = 1 THEN strs[1]
    ELSE strs[1] \o sep \o join(sep, Tail(strs))

\* s.replace(old, new) for one-character old and new.
replace(s, old, new) == [i \in 1..Len(s) |-> IF s[i] = old THEN new ELSE s[i]]

\* os.sep
sep == <<"/">>

(***************************************************************************)
(* Values read from a TOML file (TomlObject), and Python's None.           *)
(***************************************************************************)
NoneV == [t |-> "none", v |-> <<>>]
IntV == [t |-> "int", v |-> <<>>]
Str(s) == [t |-> "str", v |-> s]
List(l) == [t |-> "list", v |-> l]
Dict(d) == [t |-> "dict", v |-> d]

EmptyDict == [k \in {} |-> NoneV]

\* A one-key table, or the empty table when the key is left out of the file.
Opt(k, val) == IF val.t = "none" THEN EmptyDict ELSE k :> val

\* The result of a call: the exception raised ("none" when it returned),
\* whether the returned value is None, the returned value, and the
\* configuration files the call looked up, one entry per get_config_file().
Ok(val) == [err |-> "none", none |-> FALSE, val |-> val, reads |-> <<>>]
OkNone == [err |-> "none", none |-> TRUE, val |-> <<>>, reads |-> <<>>]
Raise(e) == [err |-> e, none |-> FALSE, val |-> <<>>, reads |-> <<>>]

\* The result second of a call made after the call with result first.
After(first, second) == [second EXCEPT !.reads = first.reads \o @]

\* read_toml_variable(toml_dict, path)
RECURSIVE read_toml_variable(_, _)
read_toml_variable(obj, path) ==
    IF path = <<>> THEN obj
    ELSE IF obj.t # "dict" THEN NoneV
    ELSE read_toml_variable(
             IF Head(path) \in DOMAIN obj.v THEN obj.v[Head(path)] ELSE NoneV,
             Tail(path))

\* is_list_str looking at the list and not at its elements.
is_list_str_shallow(obj) == obj.t = "list"

\* is_list_str(obj)
is_list_str(obj) ==
    obj.t = "list" /\ \A i \in 1..Len(obj.v) : obj.v[i].t = "str"

\* The Python List[str] held by a TOML array of strings.
StrList(obj) == [i \in 1..Len(obj.v) |-> obj.v[i].v]

\* read_package_name_from_poetry without the replacement of the dashes.
read_package_name_from_poetry_verbatim(toml_dict) ==
    LET package_name == read_toml_variable(toml_dict, <<"tool", "poetry", "name">>)
    IN  IF package_name.t # "none" /\ package_name.t # "str"
        THEN Raise("TomlValueTypeError")
        ELSE IF package_name.t = "none" THEN OkNone
        ELSE Ok(package_name.v)

\* read_package_name_from_poetry(toml_dict)
read_package_name_from_poetry(toml_dict) ==
    LET package_name == read_toml_variable(toml_dict, <<"tool", "poetry", "name">>)
    IN  IF package_name.t # "none" /\ package_name.t # "str"
        THEN Raise("TomlValueTypeError")
        ELSE IF package_name.t = "none" THEN OkNone
        ELSE Ok(replace(package_name.v, "-", "_"))

\* get_extra_modules_from_toml(toml_dict)
get_extra_modules_from_toml(toml_dict) ==
    LET extras == read_toml_variable(
                      toml_dict,
                      <<"tool", "summon", "plugins", "python", "extra-modules">>)
    IN  IF extras.t = "none" THEN Ok(<<>>)
        ELSE IF ~is_list_str(extras) THEN Raise("TomlValueTypeError")
        ELSE Ok(StrList(extras))

(***************************************************************************)
(* The environment: the file system seen by the process.                   *)
(***************************************************************************)
VARIABLES
    chain,      \* chain[d]: the candidate file names present in directory d
    contents,   \* contents[name]: what the files called name hold
    tree        \* tree[d]: the paths below directory d, in scandir order

Dirs == 0..MaxDepth

\* Path.cwd()
cwd == MaxDepth

\* str(path) of directory d: "" for the root, then one "/w" per level.
RECURSIVE DirPath(_)
DirPath(d) == IF d = 0 THEN <<>> ELSE DirPath(d - 1) \o <<"/", "w">>

\* The optional base_path argument.
NoBase == [none |-> TRUE, dir |-> 0]
Base(d) == [none |-> FALSE, dir |-> d]

\* base_path if base_path is not None else Path.cwd()
BaseOrCwd(base_path) == IF base_path.none THEN cwd ELSE base_path.dir

\* Whether the relative path s matches the glob pattern pat. A "*" matches
\* any run of characters inside one path component.
RECURSIVE GlobMatch(_, _)
GlobMatch(pat, s) ==
    IF pat = <<>> THEN s = <<>>
    ELSE IF Head(pat) = "*"
    THEN \/ GlobMatch(Tail(pat), s)
         \/ s # <<>> /\ Head(s) # "/" /\ GlobMatch(pat, Tail(s))
    ELSE s # <<>> /\ Head(s) = Head(pat) /\ GlobMatch(Tail(pat), Tail(s))

\* [str(p) for p in base_path.glob(pattern)]
glob(base, pattern) ==
    LET Matches(rel) == GlobMatch(pattern, rel)
        found == SelectSeq(tree[base], Matches)
    IN  [i \in 1..Len(found) |-> DirPath(base) \o sep \o found[i]]

\* get_packages_glob_pattern_from_package_entry(toml_dict)
get_packages_glob_pattern_from_package_entry(entry) ==
    IF entry.t # "dict" THEN Raise("TypeError")
    ELSE IF "from" \notin DOMAIN entry.v
    THEN IF "include" \in DOMAIN entry.v
         THEN Ok(entry.v["include"])
         ELSE Raise("KeyError")
    ELSE IF "include" \notin DOMAIN entry.v THEN Raise("KeyError")
    ELSE IF entry.v["from"].t # "str" \/ entry.v["include"].t # "str"
    THEN Raise("TypeError")
    ELSE Ok(Str(join(sep, <<entry.v["from"].v, entry.v["include"].v>>)))

\* The list comprehension of get_package_paths_from_toml: the matches of
\* every entry's pattern, entry after entry.
RECURSIVE PackageEntriesPaths(_, _)
PackageEntriesPaths(entries, base) ==
    IF entries = <<>> THEN Ok(<<>>)
    ELSE LET pattern == get_packages_glob_pattern_from_package_entry(Head(entries))
         IN  IF pattern.err # "none" THEN pattern
             ELSE IF pattern.val.t # "str" THEN Raise("TypeError")
             ELSE LET rest == PackageEntriesPaths(Tail(entries), base)
                  IN  IF rest.err # "none" THEN rest
                      ELSE Ok(glob(base, pattern.val.v) \o rest.val)

\* The name fallback of get_package_paths_from_toml.
PackageNamePaths(toml_dict, base) ==
    LET package_name == read_package_name_from_poetry(toml_dict)
    IN  IF package_name.err # "none" THEN package_name
        ELSE IF package_name.none THEN OkNone
        ELSE Ok(glob(base, package_name.val)
                \o glob(base, package_name.val \o <<".", "p", "y">>))

\* get_package_paths_from_toml(toml_dict, base_path=base_path)
get_package_paths_from_toml(toml_dict, base_path) ==
    LET base == BaseOrCwd(base_path)
        package_entries == read_toml_variable(toml_dict, <<"tool", "poetry", "packages">>)
    IN  IF package_entries.t # "none" /\ package_entries.t = "list"
        THEN PackageEntriesPaths(package_entries.v, base)
        ELSE PackageNamePaths(toml_dict, base)

\* get_project_modules_from_toml taking a missing package for no package.
get_project_modules_from_toml_lenient(toml_dict) ==
    LET package_name == get_package_paths_from_toml(toml_dict, NoBase)
    IN  IF package_name.err # "none" THEN package_name
        ELSE Ok(package_name.val)

\* get_project_modules_from_toml(toml_dict)
get_project_modules_from_toml(toml_dict) ==
    LET package_name == get_package_paths_from_toml(toml_dict, NoBase)
    IN  IF package_name.err # "none" THEN package_name
        ELSE IF package_name.none THEN Raise("TomlValueMissingError")
        ELSE Ok(package_name.val)

(***************************************************************************)
(* Locating and loading the configuration file.                            *)
(***************************************************************************)
\* A file of the directory chain, or no file.
NoFile == [none |-> TRUE, dir |-> 0, name |-> ""]
File(d, name) == [none |-> FALSE, dir |-> d, name |-> name]

\* summon.project.reverse_directory_search(name, base): the file called name
\* in the nearest directory among base and its ancestors, None without one.
RECURSIVE reverse_directory_search(_, _)
reverse_directory_search(name, base) ==
    IF name \in chain[base] THEN File(base, name)
    ELSE IF base = 0 THEN NoFile
    ELSE reverse_directory_search(name, base - 1)

\* first_not_none(candidates)
RECURSIVE first_not_none(_)
first_not_none(candidates) ==
    IF candidates = <<>> THEN NoFile
    ELSE IF ~Head(candidates).none THEN Head(candidates)
    ELSE first_not_none(Tail(candidates))

\* The candidates in the other order.
candidate_filenames_swapped == <<"pyproject.toml", "summon.toml">>

candidate_filenames == <<"summon.toml", "pyproject.toml">>

\* The local toml_file of get_config_file.
toml_file(base_path) ==
    LET base == BaseOrCwd(base_path)
        config_file_candidates ==
            [i \in 1..Len(candidate_filenames) |->
                reverse_directory_search(candidate_filenames[i], base)]
    IN  first_not_none(config_file_candidates)

\* toml.load(file)
toml_load(file) ==
    IF contents[file.name].t = "malformed" THEN Raise("TomlDecodeError")
    ELSE Ok(contents[file.name])

\* get_config_file(base_path=base_path)
get_config_file(base_path) ==
    LET lookup == [Ok(<<>>) EXCEPT !.reads = <<toml_file(base_path)>>]
    IN  IF toml_file(base_path).none
        THEN After(lookup, Raise("ProjectFileMissingError"))
        ELSE After(lookup, toml_load(toml_file(base_path)))

\* get_test_modules(toml_dict), toml_dict given
get_test_modules(toml_dict) ==
    LET test_modules_from_config ==
            read_toml_variable(
                toml_dict,
                <<"tool", "summon", "plugins", "python", "test-modules">>)
    IN  IF is_list_str(test_modules_from_config)
        THEN Ok(StrList(test_modules_from_config))
        ELSE LET config == get_config_file(NoBase)
             IN  IF config.err # "none" THEN config
                 ELSE After(config, get_project_modules_from_toml(config.val))

\* get_test_modules(), toml_dict left at None
get_test_modules_default ==
    LET config == get_config_file(NoBase)
    IN  IF config.err # "none" THEN config
        ELSE After(config, get_test_modules(config.val))

\* get_project_modules()
get_project_modules ==
    LET config == get_config_file(NoBase)
    IN  IF config.err # "none" THEN config
        ELSE After(config, get_project_modules_from_toml(config.val))

Range(s) == {s[i] : i \in 1..Len(s)}

\* sorted(strs) for a set of strings
RECURSIVE sorted(_)
sorted(strs) ==
    IF strs = {} THEN <<>>
    ELSE LET least == CHOOSE x \in strs : \A y \in strs \ {x} : StrLess(x, y)
         IN  <<least>> \o sorted(strs \ {least})

\* The optional args argument.
NoArgs == [none |-> TRUE, list |-> <<>>]
Args(l) == [none |-> FALSE, list |-> l]

\* args_or_all_modules loading the configuration before it looks at args.
args_or_all_modules_eager(args) ==
    LET toml_dict == get_config_file(NoBase)
    IN  IF toml_dict.err # "none" THEN toml_dict
        ELSE IF ~args.none /\ args.list # <<>> THEN After(toml_dict, Ok(args.list))
        ELSE LET project == get_project_modules_from_toml(toml_dict.val)
                 extra == get_extra_modules_from_toml(toml_dict.val)
                 tests == get_test_modules(toml_dict.val)
             IN  IF project.err # "none" THEN After(toml_dict, project)
                 ELSE IF extra.err # "none" THEN After(toml_dict, extra)
                 ELSE IF tests.err # "none"
                 THEN After(toml_dict, tests)
                 ELSE After(
                          After(toml_dict, tests),
                          Ok(sorted(Range(project.val) \cup Range(extra.val)
                                    \cup Range(tests.val))))

\* args_or_all_modules concatenating the three lists instead of sorting
\* their union.
args_or_all_modules_concatenating(args) ==
    IF ~args.none /\ args.list # <<>> THEN Ok(args.list)
    ELSE LET toml_dict == get_config_file(NoBase)
         IN  IF toml_dict.err # "none" THEN toml_dict
             ELSE LET project == get_project_modules_from_toml(toml_dict.val)
                      extra == get_extra_modules_from_toml(toml_dict.val)
                      tests == get_test_modules(toml_dict.val)
                  IN  IF project.err # "none" THEN After(toml_dict, project)
                      ELSE IF extra.err # "none" THEN After(toml_dict, extra)
                      ELSE IF tests.err # "none"
                      THEN After(toml_dict, tests)
                      ELSE After(
                               After(toml_dict, tests),
                               Ok(project.val \o extra.val \o tests.val))

\* args_or_all_modules(args)
args_or_all_modules(args) ==
    IF ~args.none /\ args.list # <<>> THEN Ok(args.list)
    ELSE LET toml_dict == get_config_file(NoBase)
         IN  IF toml_dict.err # "none" THEN toml_dict
             ELSE LET project == get_project_modules_from_toml(toml_dict.val)
                      extra == get_extra_modules_from_toml(toml_dict.val)
                      tests == get_test_modules(toml_dict.val)
                  IN  IF project.err # "none" THEN After(toml_dict, project)
                      ELSE IF extra.err # "none" THEN After(toml_dict, extra)
                      ELSE IF tests.err # "none"
                      THEN After(toml_dict, tests)
                      ELSE After(
                               After(toml_dict, tests),
                               Ok(sorted(Range(project.val) \cup Range(extra.val)
                                         \cup Range(tests.val))))

(***************************************************************************)
(* The configurations and file systems the model draws its inputs from.    *)
(***************************************************************************)
a_b == <<"a", "_", "b">>
a_dash_b == <<"a", "-", "b">>

\* An entry of tool.poetry.packages.
Entry(include) == Dict("include" :> Str(include))
EntryFrom(from, include) == Dict(("from" :> Str(from)) @@ ("include" :> Str(include)))

\* tool.poetry.packages: absent, not a list, empty, one package, a package
\* below "s" and a wildcard, an entry without include.
PackagesOptions ==
    { NoneV, Str(a_b), List(<<>>), List(<<Entry(a_b)>>),
      List(<<EntryFrom(<<"s">>, a_b), Entry(<<"*">>)>>),
      List(<<Entry(<<"q">>), Dict(EmptyDict)>>) }

\* tool.poetry.name: absent, not a string, a name with a dash.
NameOptions == { NoneV, IntV, Str(a_dash_b) }

\* tool.summon.plugins.python.extra-modules: absent, not a list of strings,
\* a list of strings.
ExtraOptions ==
    { NoneV, List(<<Str(<<"x">>), IntV>>), List(<<Str(<<"x">>), Str(<<"t">>)>>) }

\* tool.summon.plugins.python.test-modules: absent, not a list, empty, a list
\* of strings.
TestOptions == { NoneV, Str(<<"t">>), List(<<>>), List(<<Str(<<"t">>)>>) }

\* The dict that toml.load returns for a file with these four settings.
MkConfig(packages, name, extra, tests) ==
    LET poetry == Opt("packages", packages) @@ Opt("name", name)
        python == Opt("extra-modules", extra) @@ Opt("test-modules", tests)
        summon == "summon" :> Dict("plugins" :> Dict("python" :> Dict(python)))
    IN  Dict("tool" :> Dict(
            (IF DOMAIN poetry = {} THEN EmptyDict ELSE "poetry" :> Dict(poetry))
            @@ (IF DOMAIN python = {} THEN EmptyDict ELSE summon)))

\* A file whose "tool" is not a table, and one whose "tool.poetry" is not.
ToolNotDict == Dict("tool" :> IntV)
PoetryNotDict == Dict("tool" :> Dict("poetry" :> Str(a_b)))

\* The dicts the functions that take a toml_dict are called with.
Configs ==
    { MkConfig(p, n, NoneV, NoneV) : p \in PackagesOptions, n \in NameOptions }
    \cup { MkConfig(NoneV, Str(a_dash_b), e, t) : e \in ExtraOptions, t \in TestOptions }
    \cup { MkConfig(List(<<>>), NoneV, e, t) : e \in ExtraOptions, t \in TestOptions }
    \cup { MkConfig(p, NoneV, NoneV, List(<<Str(<<"t">>)>>)) : p \in PackagesOptions }
    \cup { ToolNotDict, PoetryNotDict }

\* A file that is not valid TOML.
Malformed == [t |-> "malformed", v |-> <<>>]

\* What the summon.toml files and the pyproject.toml files hold.
SummonContents ==
    { MkConfig(NoneV, NoneV, NoneV, List(<<Str(<<"t">>)>>)),
      MkConfig(NoneV, Str(a_dash_b), List(<<Str(<<"x">>), Str(<<"t">>)>>), NoneV) }

PyprojectContents ==
    { MkConfig(NoneV, Str(a_dash_b), NoneV, NoneV),
      MkConfig(List(<<EntryFrom(<<"s">>, a_b), Entry(<<"*">>)>>), NoneV,
               List(<<Str(<<"x">>), Str(<<"t">>)>>), List(<<Str(<<"t">>)>>)),
      MkConfig(List(<<>>), NoneV, NoneV, NoneV),
      MkConfig(NoneV, Str(a_dash_b), List(<<Str(<<"x">>), IntV>>), NoneV),
      ToolNotDict,
      Malformed }

\* The paths below the working directory, in scandir order: nothing, a
\* single-file project, a package project with more around it.
Listings ==
    { <<>>,
      <<<<"a", "_", "b", ".", "p", "y">>>>,
      <<<<"t">>, a_b, <<"s">>, <<"s", "/", "a", "_", "b">>, a_dash_b>> }

\* The paths below every other directory of the chain.
AncestorListing == <<<<"w">>, a_b>>

(***************************************************************************)
(* The tasks.                                                              *)
(***************************************************************************)
\* The words of the command lines.
PYTEST == <<"p", "y", "t", "e", "s", "t">>
MYPY == <<"m", "y", "p", "y">>
FLAKE8 == <<"f", "l", "a", "k", "e", "8">>
PYLINT == <<"p", "y", "l", "i", "n", "t">>
BLACK == <<"b", "l", "a", "c", "k">>
ISORT == <<"i", "s", "o", "r", "t">>
COVERAGE == <<"c", "o", "v", "e", "r", "a", "g", "e">>
HTML == <<"h", "t", "m", "l">>
DASH_R == <<"-", "r">>
DASH_Q == <<"-", "q">>
DASH_CHECK == <<"-", "-", "c", "h", "e", "c", "k">>
DASH_COV == <<"-", "-", "c", "o", "v", "=">>

\* The values of a bool parameter declared `= typer.Option(default=False)`:
\* the bool that the command line parser or a caller passes, or, when a
\* Python caller leaves the parameter out, the default of the signature, which
\* is the OptionInfo object that typer.Option returns.
BoolValues == {"False", "True"}
OptionInfo == "OptionInfo"

\* bool(value): an OptionInfo defines neither __bool__ nor __len__.
Truthy(value) == value # "False"

\* The exit statuses of the external tools.
ExitStatuses == 0..MaxExitStatus

\* The two modules that define the tasks.
Modules == {"tasks", "plugin"}

\* The files arguments the command line can pass to lint and format.
FilesOptions ==
    { NoArgs, Args(<<>>), Args(<<<<"x">>>>), Args(<<<<"x">>, <<"t">>, <<"x">>>>) }

VARIABLES
    pc,         \* the statement the process is at
    call,       \* the function the process was started on, and its arguments
    frame,      \* the arguments and locals of the task function running
    todo,       \* the task calls the running task function's callers make next
    results,    \* the Results collected so far, in the order of the lists
    invoked,    \* every command executed so far, with its exit status
    lookups,    \* every configuration file looked up so far
    ret         \* what the function the process was started on came to

env == <<chain, contents, tree>>
vars == <<chain, contents, tree, pc, call, frame, todo, results, invoked, lookups, ret>>

NoCall ==
    [fn |-> "", module |-> "", toml_dict |-> NoneV, base_path |-> NoBase,
     args |-> NoArgs]

\* The arguments and the locals of a call of a task function.
NoFrame ==
    [fn |-> "", files |-> NoArgs, full_report |-> "False", check |-> "False",
     coverage |-> "False", html |-> "False",
     subject |-> <<>>, coverage_flag |-> <<>>, test_modules |-> <<>>]

\* lint(files, full_report=full_report)
LintFrame(files, full_report) ==
    [NoFrame EXCEPT !.fn = "lint", !.files = files, !.full_report = full_report]

\* format(files, check=check)
FormatFrame(files, check) ==
    [NoFrame EXCEPT !.fn = "format", !.files = files, !.check = check]

\* test(coverage=coverage, html=html)
TestFrame(coverage, html) ==
    [NoFrame EXCEPT !.fn = "test", !.coverage = coverage, !.html = html]

\* coverage_html()
CoverageHtmlFrame == [NoFrame EXCEPT !.fn = "coverage_html"]

\* Every way of placing the candidate files in the directory chain.
Layouts == [Dirs -> SUBSET Range(candidate_filenames)]

\* The layouts with the candidate files, if any, in the topmost directory.
TopLayouts == {layout \in Layouts : \A d \in Dirs \ {0} : layout[d] = {}}

\* The process starts in the working directory of a file system with one of
\* the given layouts.
InitIn(layouts) ==
    /\ chain \in layouts
    /\ \E summon \in SummonContents, pyproject \in PyprojectContents :
           contents = ("summon.toml" :> summon) @@ ("pyproject.toml" :> pyproject)
    /\ \E listing \in Listings :
           tree = [d \in Dirs |-> IF d = cwd THEN listing ELSE AncestorListing]
    /\ pc = "idle"
    /\ call = NoCall
    /\ frame = NoFrame
    /\ todo = <<>>
    /\ results = <<>>
    /\ invoked = <<>>
    /\ lookups = <<>>
    /\ ret = OkNone

Init == InitIn(TopLayouts)

InitProject == InitIn(Layouts)

(***************************************************************************)
(* Calls of the functions of project.py.                                   *)
(***************************************************************************)
\* The process runs a function of project.py and ends with its result.
Finish(fn, toml_dict, base_path, args, result) ==
    /\ pc = "idle"
    /\ pc' = "done"
    /\ call' = [NoCall EXCEPT !.fn = fn, !.toml_dict = toml_dict,
                              !.base_path = base_path, !.args = args]
    /\ ret' = result
    /\ lookups' = lookups \o result.reads
    /\ UNCHANGED <<env, frame, todo, results, invoked>>

BasePaths == {NoBase} \cup {Base(d) : d \in Dirs}

CallGetConfigFile ==
    \E base_path \in BasePaths :
        Finish("get_config_file", NoneV, base_path, NoArgs,
               get_config_file(base_path))

CallGetPackagePathsFromToml ==
    \E toml_dict \in Configs, base_path \in BasePaths :
        Finish("get_package_paths_from_toml", toml_dict, base_path, NoArgs,
               get_package_paths_from_toml(toml_dict, base_path))

CallGetProjectModulesFromToml ==
    \E toml_dict \in Configs :
        Finish("get_project_modules_from_toml", toml_dict, NoBase, NoArgs,
               get_project_modules_from_toml(toml_dict))

CallGetExtraModulesFromToml ==
    \E toml_dict \in Configs :
        Finish("get_extra_modules_from_toml", toml_dict, NoBase, NoArgs,
               get_extra_modules_from_toml(toml_dict))

CallGetTestModules ==
    \E toml_dict \in Configs :
        Finish("get_test_modules", toml_dict, NoBase, NoArgs,
               get_test_modules(toml_dict))

CallArgsOrAllModules ==
    \E args \in FilesOptions :
        Finish("args_or_all_modules", NoneV, NoBase, args,
               args_or_all_modules(args))

(***************************************************************************)
(* Calls of the tasks.                                                     *)
(***************************************************************************)
\* The process runs a task: first is the first call of a task function the
\* task makes, rest the calls that follow it.
Start(fn, module, first, rest) ==
    /\ pc = "idle"
    /\ pc' = first.fn
    /\ call' = [NoCall EXCEPT !.fn = fn, !.module = module]
    /\ frame' = first
    /\ todo' = rest
    /\ UNCHANGED <<env, results, invoked, lookups, ret>>

CallLint ==
    \E module \in Modules, files \in FilesOptions, full_report \in BoolValues :
        Start("lint", module, LintFrame(files, full_report), <<>>)

CallFormat ==
    \E module \in Modules, files \in FilesOptions, check \in BoolValues :
        Start("format", module, FormatFrame(files, check), <<>>)

CallTest ==
    \E module \in Modules, coverage \in BoolValues, html \in BoolValues :
        Start("test", module, TestFrame(coverage, html), <<>>)

CallCoverageHtml ==
    \E module \in Modules :
        Start("coverage_html", module, CoverageHtmlFrame, <<>>)

\* static_checks(): [*lint([]), *format([], check=True)]
CallStaticChecks ==
    \E module \in Modules :
        Start("static_checks", module,
              LintFrame(Args(<<>>), OptionInfo),
              <<FormatFrame(Args(<<>>), "True")>>)

\* all_checks(): [*static_checks(), *test()]
CallAllChecks ==
    \E module \in Modules :
        Start("all_checks", module,
              LintFrame(Args(<<>>), OptionInfo),
              <<FormatFrame(Args(<<>>), "True"), TestFrame(OptionInfo, OptionInfo)>>)

\* An exception leaves every function on the stack: the process ends.
Throw(result) ==
    /\ pc' = "done"
    /\ ret' = result
    /\ UNCHANGED <<frame, todo, results>>

\* The running task function returns its list; its caller splices it into
\* its own list and makes its next call, or returns in turn.
Leave(collected) ==
    /\ results' = collected
    /\ IF todo = <<>>
       THEN /\ pc' = "done"
            /\ ret' = Ok(collected)
            /\ UNCHANGED <<frame, todo>>
       ELSE /\ pc' = Head(todo).fn
            /\ frame' = Head(todo)
            /\ todo' = Tail(todo)
            /\ UNCHANGED ret

\* The raise_error argument of an execute call: False, or left out.
RaiseErrorOptions(raise_error) ==
    IF raise_error = "default" THEN BOOLEAN ELSE {raise_error = "True"}

\* execute(command, raise_error=raise_error), then the statement at next;
\* next = "return" ends the running task function.
execute(command, raise_error, next) ==
    \E status \in ExitStatuses, raises \in RaiseErrorOptions(raise_error) :
        LET result == [cmd |-> command, status |-> status]
        IN  /\ invoked' = Append(invoked, result)
            /\ IF raises /\ status # 0
               THEN Throw(Raise("ExecutionError"))
               ELSE IF next = "return"
               THEN Leave(Append(results, result))
               ELSE /\ pc' = next
                    /\ results' = Append(results, result)
                    /\ UNCHANGED <<frame, todo, ret>>
            /\ UNCHANGED <<env, call, lookups>>

\* The same without the return for an empty subject.
Subject_unguarded(first) ==
    LET subject == args_or_all_modules(frame.files)
    IN  /\ lookups' = lookups \o subject.reads
        /\ IF subject.err # "none" THEN Throw(subject)
           ELSE /\ pc' = first
                /\ frame' = [frame EXCEPT !.subject = subject.val]
                /\ UNCHANGED <<todo, results, ret>>
        /\ UNCHANGED <<env, call, invoked>>

\* subject = args_or_all_modules(files); if not subject: return []
Subject(first) ==
    LET subject == args_or_all_modules(frame.files)
    IN  /\ lookups' = lookups \o subject.reads
        /\ IF subject.err # "none" THEN Throw(subject)
           ELSE IF subject.val = <<>> THEN Leave(results)
           ELSE /\ pc' = first
                /\ frame' = [frame EXCEPT !.subject = subject.val]
                /\ UNCHANGED <<todo, results, ret>>
        /\ UNCHANGED <<env, call, invoked>>

LintSubject == pc = "lint" /\ Subject("mypy")

\* The mypy call with raise_error left out.
ExecMypy_raising ==
    /\ pc = "mypy"
    /\ execute(<<MYPY>> \o frame.subject, "default", "flake8")

ExecMypy ==
    /\ pc = "mypy"
    /\ execute(<<MYPY>> \o frame.subject, "False", "flake8")

ExecFlake8 ==
    /\ pc = "flake8"
    /\ execute(<<FLAKE8>> \o frame.subject, "False", "pylint")

ExecPylint ==
    /\ pc = "pylint"
    /\ LET pylint_report_flag == IF Truthy(frame.full_report) THEN <<"y">> ELSE <<"n">>
       IN  execute(<<PYLINT, DASH_R, pylint_report_flag>> \o frame.subject,
                   "False", "return")

FormatSubject == pc = "format" /\ Subject("black")

\* args = ['-q', *check_flag, *subject]
FormatArgs ==
    LET check_flag == IF Truthy(frame.check) THEN <<DASH_CHECK>> ELSE <<>>
    IN  <<DASH_Q>> \o check_flag \o frame.subject

ExecBlack ==
    /\ pc = "black"
    /\ execute(<<BLACK>> \o FormatArgs, "False", "isort")

ExecIsort ==
    /\ pc = "isort"
    /\ execute(<<ISORT>> \o FormatArgs, "False", "return")

\* coverage_flag = [f'--cov={",".join(get_project_modules())}'] if coverage
\* else []; test_modules = get_test_modules()
TestModules ==
    /\ pc = "test"
    /\ LET project == IF Truthy(frame.coverage) THEN get_project_modules ELSE Ok(<<>>)
           coverage_flag ==
               IF Truthy(frame.coverage)
               THEN <<DASH_COV \o join(<<",">>, project.val)>>
               ELSE <<>>
           test_modules == get_test_modules_default
       IN  IF project.err # "none"
           THEN /\ lookups' = lookups \o project.reads
                /\ Throw(project)
           ELSE /\ lookups' = lookups \o project.reads \o test_modules.reads
                /\ IF test_modules.err # "none"
                   THEN Throw(test_modules)
                   ELSE /\ pc' = "pytest"
                        /\ frame' = [frame EXCEPT
                                        !.coverage_flag = coverage_flag,
                                        !.test_modules = test_modules.val]
                        /\ UNCHANGED <<todo, results, ret>>
    /\ UNCHANGED <<env, call, invoked>>

\* tasks.py leaves raise_error out of the pytest call, plugin.py passes False.
ExecPytest ==
    /\ pc = "pytest"
    /\ execute(<<PYTEST>> \o frame.coverage_flag \o frame.test_modules,
               IF call.module = "tasks" THEN "default" ELSE "False",
               IF Truthy(frame.coverage) /\ Truthy(frame.html)
               THEN "coverage_html" ELSE "return")

\* execute('coverage html', raise_error=False)
ExecCoverageHtml ==
    /\ pc = "coverage_html"
    /\ execute(<<COVERAGE, HTML>>, "False", "return")

\* The calls of the functions of project.py.
NextProject ==
    \/ CallGetConfigFile
    \/ CallGetPackagePathsFromToml
    \/ CallGetProjectModulesFromToml
    \/ CallGetExtraModulesFromToml
    \/ CallGetTestModules
    \/ CallArgsOrAllModules

Next ==
    \/ NextProject
    \/ CallLint
    \/ CallFormat
    \/ CallTest
    \/ CallCoverageHtml
    \/ CallStaticChecks
    \/ CallAllChecks
    \/ LintSubject
    \/ ExecMypy
    \/ ExecFlake8
    \/ ExecPylint
    \/ FormatSubject
    \/ ExecBlack
    \/ ExecIsort
    \/ TestModules
    \/ ExecPytest
    \/ ExecCoverageHtml

\* The tasks, and the functions of project.py, with the configuration files
\* in the topmost directory.
Spec == Init /\ [][Next]_vars

\* The functions of project.py in every layout of the directory chain.
SpecProject == InitProject /\ [][NextProject]_vars

TypeOK ==
    /\ pc \in {"idle", "lint", "mypy", "flake8", "pylint", "format", "black",
               "isort", "test", "pytest", "coverage_html", "done"}
    /\ Len(results) <= Len(invoked)

(***************************************************************************)
(* The properties.                                                         *)
(***************************************************************************)
\* The process has run the function fn to its end.
Done(fn) == pc = "done" /\ call.fn = fn

\* The value of tool.poetry.<key> or of tool.summon.plugins.python.<key> in
\* a configuration, NoneV when a table on the way or the key is missing.
Member(obj, key) ==
    IF obj.t = "dict" /\ key \in DOMAIN obj.v THEN obj.v[key] ELSE NoneV

PoetrySetting(config, key) ==
    Member(Member(Member(config, "tool"), "poetry"), key)

PluginSetting(config, key) ==
    Member(Member(Member(Member(Member(config, "tool"), "summon"), "plugins"),
                  "python"), key)

IsStrList(obj) == obj.t = "list" /\ {i \in 1..Len(obj.v) : obj.v[i].t # "str"} = {}

\* The directories from base up to the root that hold a file called name.
Holders(name, base) == {d \in 0..base : name \in chain[d]}

Nearest(name, base) == CHOOSE d \in Holders(name, base) : \A e \in Holders(name, base) : e <= d

\* C1: get_config_file loads the nearest summon.toml of the chain from the
\* base directory up to the root whenever the chain holds one, whatever
\* pyproject.toml lies nearer; it loads the nearest pyproject.toml only when
\* the chain holds no summon.toml; it raises ProjectFileMissingError exactly
\* when the chain holds neither.
C1_ConfigFilePrecedence ==
    Done("get_config_file") =>
        LET base == IF call.base_path.none THEN MaxDepth ELSE call.base_path.dir
            Loaded(name) ==
                /\ lookups = <<File(Nearest(name, base), name)>>
                /\ IF contents[name].t = "malformed"
                   THEN ret.err = "TomlDecodeError"
                   ELSE ret.err = "none" /\ ret.val = contents[name]
        IN  /\ Holders("summon.toml", base) # {} => Loaded("summon.toml")
            /\ Holders("summon.toml", base) = {}
                   /\ Holders("pyproject.toml", base) # {} => Loaded("pyproject.toml")
            /\ ret.err = "ProjectFileMissingError"
                   <=> Holders("summon.toml", base) = {}
                       /\ Holders("pyproject.toml", base) = {}

\* A summon.toml in an ancestor wins over a pyproject.toml in the base
\* directory itself.
C1_Witness ==
    /\ Done("get_config_file")
    /\ call.base_path.none
    /\ chain[MaxDepth] = {"pyproject.toml"}
    /\ "summon.toml" \in chain[0]
    /\ lookups = <<File(0, "summon.toml")>>
    /\ ret.err = "none"
    /\ ret.val = contents["summon.toml"]

\* The pattern of a well-formed entry of tool.poetry.packages.
EntryPattern(entry) ==
    IF "from" \in DOMAIN entry.v
    THEN entry.v["from"].v \o <<"/">> \o entry.v["include"].v
    ELSE entry.v["include"].v

WellFormedEntries(packages) ==
    \A i \in 1..Len(packages.v) :
        /\ packages.v[i].t = "dict"
        /\ "include" \in DOMAIN packages.v[i].v
        /\ \A k \in DOMAIN packages.v[i].v : packages.v[i].v[k].t = "str"

RECURSIVE Flatten(_)
Flatten(lists) == IF lists = <<>> THEN <<>> ELSE Head(lists) \o Flatten(Tail(lists))

Underscored(name) == [i \in 1..Len(name) |-> IF name[i] = "-" THEN "_" ELSE name[i]]

\* The first two layers of the precedence of get_package_paths_from_toml.
PackagePathsLayers ==
    LET config == call.toml_dict
        base == IF call.base_path.none THEN MaxDepth ELSE call.base_path.dir
        packages == PoetrySetting(config, "packages")
        name == PoetrySetting(config, "name")
    IN  /\ packages.t = "list" /\ WellFormedEntries(packages) =>
               /\ ret.err = "none" /\ ~ret.none
               /\ ret.val = Flatten([i \in 1..Len(packages.v) |->
                                        glob(base, EntryPattern(packages.v[i]))])
        /\ packages.t # "list" /\ name.t = "str" =>
               /\ ret.err = "none" /\ ~ret.none
               /\ ret.val = glob(base, Underscored(name.v))
                            \o glob(base, Underscored(name.v) \o <<".", "p", "y">>)
               /\ tree[base] = <<Underscored(name.v) \o <<".", "p", "y">>>> =>
                      ret.val = <<DirPath(base) \o <<"/">> \o Underscored(name.v)
                                  \o <<".", "p", "y">>>>

\* C2 as stated: with neither a packages list nor a string name, the result
\* is None.
C2_AsStated ==
    Done("get_package_paths_from_toml") =>
        /\ PackagePathsLayers
        /\ PoetrySetting(call.toml_dict, "packages").t # "list"
               /\ PoetrySetting(call.toml_dict, "name").t # "str"
               => ret.err = "none" /\ ret.none

\* C2: get_package_paths_from_toml returns the matches of the entries of a
\* list-valued tool.poetry.packages, entry after entry, without consulting
\* tool.poetry.name; else, for a string name, the matches of the name with
\* its dashes replaced by underscores and then those of that name plus ".py";
\* else None when there is no name, and it raises TomlValueTypeError for a
\* name that is not a string.
C2_PackagePathsPrecedence ==
    Done("get_package_paths_from_toml") =>
        /\ PackagePathsLayers
        /\ PoetrySetting(call.toml_dict, "packages").t # "list"
               /\ PoetrySetting(call.toml_dict, "name").t = "none"
               => ret.err = "none" /\ ret.none
        /\ PoetrySetting(call.toml_dict, "packages").t # "list"
               /\ PoetrySetting(call.toml_dict, "name").t \notin {"none", "str"}
               => ret.err = "TomlValueTypeError"

\* A packages list is resolved although the name is not a string, and the
\* matches of its two entries come in entry order.
C2_Witness ==
    /\ Done("get_package_paths_from_toml")
    /\ PoetrySetting(call.toml_dict, "packages").t = "list"
    /\ Len(PoetrySetting(call.toml_dict, "packages").v) = 2
    /\ PoetrySetting(call.toml_dict, "name").t = "int"
    /\ ret.err = "none"
    /\ Len(ret.val) > 2

\* C3: get_test_modules(toml_dict) returns the test-modules list of
\* toml_dict when it is a list of strings, and otherwise what
\* get_project_modules_from_toml gives for that same toml_dict.
C3_TestModulesFromSameDict ==
    Done("get_test_modules") =>
        LET tests == PluginSetting(call.toml_dict, "test-modules")
            project == get_project_modules_from_toml(call.toml_dict)
        IN  IF IsStrList(tests)
            THEN ret.err = "none" /\ ret.val = [i \in 1..Len(tests.v) |-> tests.v[i].v]
            ELSE ret.err = project.err /\ ret.val = project.val

\* C4: args_or_all_modules returns a non-empty args as it is and looks up no
\* configuration file for it; it looks one up when args is None or empty.
C4_ArgsBypassConfig ==
    /\ Done("args_or_all_modules") =>
           IF ~call.args.none /\ Len(call.args.list) > 0
           THEN ret.err = "none" /\ ret.val = call.args.list /\ lookups = <<>>
           ELSE Len(lookups) > 0
    /\ pc \in {"mypy", "black"} /\ call.fn \in {"lint", "format"}
           /\ Len(frame.files.list) > 0
           => frame.subject = frame.files.list /\ lookups = <<>>

\* Args with a duplicate come back unchanged where there is no
\* configuration file at all.
C4_Witness ==
    /\ Done("args_or_all_modules")
    /\ call.args.list = <<<<"x">>, <<"t">>, <<"x">>>>
    /\ \A d \in Dirs : chain[d] = {}
    /\ ret.err = "none"
    /\ ret.val = call.args.list

\* The configuration that get_config_file() loads in the working directory.
LocatedConfig ==
    IF Holders("summon.toml", MaxDepth) # {} THEN contents["summon.toml"]
    ELSE contents["pyproject.toml"]

Elements(list) == {list[i] : i \in 1..Len(list)}

\* C5: for args None or empty, args_or_all_modules returns a strictly
\* ascending list of exactly the project modules, the extra-modules and the
\* test modules of the located configuration file.
C5_SortedUnion ==
    Done("args_or_all_modules") /\ (call.args.none \/ call.args.list = <<>>)
        /\ ret.err = "none"
    =>  LET project == Elements(get_project_modules_from_toml(LocatedConfig).val)
            extra == PluginSetting(LocatedConfig, "extra-modules")
            tests == PluginSetting(LocatedConfig, "test-modules")
        IN  /\ \A i \in 1..Len(ret.val) - 1 : StrLess(ret.val[i], ret.val[i + 1])
            /\ Elements(ret.val) =
                   project
                   \cup (IF extra.t = "none" THEN {}
                         ELSE {extra.v[i].v : i \in 1..Len(extra.v)})
                   \cup (IF IsStrList(tests)
                         THEN {tests.v[i].v : i \in 1..Len(tests.v)}
                         ELSE project)

\* "t" is an extra module and a test module and comes once, after the
\* project modules found by the two package entries.
C5_Witness ==
    /\ Done("args_or_all_modules")
    /\ call.args.none
    /\ ret.err = "none"
    /\ PluginSetting(LocatedConfig, "extra-modules") = List(<<Str(<<"x">>), Str(<<"t">>)>>)
    /\ PluginSetting(LocatedConfig, "test-modules") = List(<<Str(<<"t">>)>>)
    /\ Len(ret.val) = 7
    /\ ret.val[6] = <<"t">>
    /\ ret.val[7] = <<"x">>

\* The command lines of a list of Results or of the log of invocations.
Commands(log) == [i \in 1..Len(log) |-> log[i].cmd]

\* The tools of a list of Results or of the log of invocations.
Tools(log) == [i \in 1..Len(log) |-> log[i].cmd[1]]

IsPrefix(short, long) ==
    Len(short) <= Len(long) /\ \A i \in 1..Len(short) : short[i] = long[i]

LintCommands(subject, full_report) ==
    << <<MYPY>> \o subject,
       <<FLAKE8>> \o subject,
       <<PYLINT, <<"-", "r">>, IF full_report = "True" THEN <<"y">> ELSE <<"n">>>>
           \o subject >>

FormatCommands(subject, check) ==
    LET options == IF check = "True" THEN <<<<"-", "q">>, DASH_CHECK>> ELSE <<<<"-", "q">>>>
    IN  << <<BLACK>> \o options \o subject, <<ISORT>> \o options \o subject >>

\* C6: with a non-empty subject, lint runs mypy, flake8 and pylint in this
\* order and format runs black and isort in this order, each on the whole
\* subject, with "-r y" or "-r n" for pylint and "-q" and then "--check" when
\* check is set for black and isort; whatever the exit statuses, all of them
\* run and the results returned are those of the invocations, in their order.
C6_LintFormatSequence ==
    call.fn \in {"lint", "format"} /\ frame.subject # <<>> =>
        LET expected == IF call.fn = "lint"
                        THEN LintCommands(frame.subject, frame.full_report)
                        ELSE FormatCommands(frame.subject, frame.check)
        IN  /\ IsPrefix(Commands(invoked), expected)
            /\ results = invoked
            /\ pc = "done" =>
                   /\ Commands(invoked) = expected
                   /\ ret.err = "none"
                   /\ ret.val = invoked

\* lint --full-report where mypy and flake8 fail: pylint still runs.
C6_Witness ==
    /\ Done("lint")
    /\ frame.full_report = "True"
    /\ Len(invoked) = 3
    /\ invoked[1].status # 0
    /\ invoked[2].status # 0
    /\ Tools(ret.val) = <<MYPY, FLAKE8, PYLINT>>
    /\ Len(frame.subject) > 1

\* C7: get_project_modules_from_toml raises TomlValueMissingError exactly for
\* a configuration with neither a list-valued tool.poetry.packages nor a
\* tool.poetry.name; an empty packages list and patterns without a match give
\* the empty list; packages that is not a list leaves the result to the
\* name; and no tool has been invoked when a process ends in this error.
C7_MissingValue ==
    /\ ret.err = "TomlValueMissingError" => invoked = <<>>
    /\ Done("get_project_modules_from_toml") =>
           LET packages == PoetrySetting(call.toml_dict, "packages")
               name == PoetrySetting(call.toml_dict, "name")
           IN  /\ ret.err = "TomlValueMissingError"
                      <=> packages.t # "list" /\ name.t = "none"
               /\ packages.t = "list" /\ WellFormedEntries(packages)
                      /\ (\A i \in 1..Len(packages.v) :
                             glob(MaxDepth, EntryPattern(packages.v[i])) = <<>>)
                      => ret.err = "none" /\ ret.val = <<>>
               /\ packages.t \notin {"none", "list"} /\ name.t = "str"
                      => /\ ret.err = "none"
                         /\ ret.val = glob(MaxDepth, Underscored(name.v))
                                      \o glob(MaxDepth, Underscored(name.v)
                                                        \o <<".", "p", "y">>)

\* packages is a string and there is no name.
C7_Witness ==
    /\ Done("get_project_modules_from_toml")
    /\ PoetrySetting(call.toml_dict, "packages").t = "str"
    /\ PoetrySetting(call.toml_dict, "name").t = "none"
    /\ ret.err = "TomlValueMissingError"

\* C8: without a packages list, a tool.poetry.name that is not a string makes
\* the package resolution raise TomlValueTypeError; get_extra_modules_from_toml
\* returns the empty list without extra-modules and raises TomlValueTypeError
\* for extra-modules that is not a list of strings; so args_or_all_modules
\* without args raises when the extra-modules of the located file is
\* ill-typed.
C8_TypeErrors ==
    /\ Done("get_package_paths_from_toml") \/ Done("get_project_modules_from_toml") =>
           (PoetrySetting(call.toml_dict, "packages").t # "list"
                /\ PoetrySetting(call.toml_dict, "name").t \notin {"none", "str"}
            => ret.err = "TomlValueTypeError")
    /\ Done("get_extra_modules_from_toml") =>
           LET extra == PluginSetting(call.toml_dict, "extra-modules")
           IN  IF extra.t = "none" THEN ret.err = "none" /\ ret.val = <<>>
               ELSE IF IsStrList(extra)
               THEN ret.err = "none" /\ ret.val = [i \in 1..Len(extra.v) |-> extra.v[i].v]
               ELSE ret.err = "TomlValueTypeError"
    /\ Done("args_or_all_modules") /\ (call.args.none \/ call.args.list = <<>>) =>
           LET extra == PluginSetting(LocatedConfig, "extra-modules")
           IN  extra.t # "none" /\ ~IsStrList(extra) => ret.err # "none"

\* The located file has a package name and an integer among its
\* extra-modules.
C8_Witness ==
    /\ Done("args_or_all_modules")
    /\ call.args.none
    /\ PoetrySetting(LocatedConfig, "name").t = "str"
    /\ PluginSetting(LocatedConfig, "extra-modules").t = "list"
    /\ ~IsStrList(PluginSetting(LocatedConfig, "extra-modules"))
    /\ ret.err = "TomlValueTypeError"

\* C9 as stated: all_checks invokes pytest after the five static tools, or
\* alone when the subject is empty, and returns the results of mypy, flake8,
\* pylint, black, isort and pytest, in this order.
C9_AsStated ==
    call.fn = "all_checks" =>
        /\ \A i \in 1..Len(invoked) :
               invoked[i].cmd[1] = PYTEST =>
                   Tools(SubSeq(invoked, 1, i - 1))
                       \in {<<>>, <<MYPY, FLAKE8, PYLINT, BLACK, ISORT>>}
        /\ pc = "done" /\ ret.err = "none" =>
               Tools(ret.val) \in {<<PYTEST>>,
                                   <<MYPY, FLAKE8, PYLINT, BLACK, ISORT, PYTEST>>}

\* C10 as stated: once test invokes pytest, the command is pytest, then
\* --cov=<the project modules joined by ","> exactly when coverage is set,
\* then the test modules; "coverage html" is invoked, after pytest, exactly
\* when coverage and html are set; the list returned is that of the
\* invocations.
C10_AsStated ==
    Done("test") /\ invoked # <<>> =>
        LET project == get_project_modules_from_toml(LocatedConfig).val
            tests == PluginSetting(LocatedConfig, "test-modules")
            test_modules ==
                IF IsStrList(tests) THEN [i \in 1..Len(tests.v) |-> tests.v[i].v]
                ELSE project
            cov == IF frame.coverage = "True"
                   THEN <<DASH_COV \o join(<<",">>, project)>> ELSE <<>>
        IN  /\ invoked[1].cmd = <<PYTEST>> \o cov \o test_modules
            /\ IF frame.coverage = "True" /\ frame.html = "True"
               THEN Commands(invoked) = <<invoked[1].cmd, <<COVERAGE, HTML>>>>
               ELSE Len(invoked) = 1
            /\ ret.err = "none" => ret.val = invoked

\* The arguments of a command line of mypy, flake8, pylint, black or isort
\* that are paths: those after the tool, the "-r" of pylint with its value,
\* and the "-q" and "--check" of black and isort.
PathArguments(cmd) ==
    LET skipped == IF cmd[1] = PYLINT THEN 3
                   ELSE IF cmd[1] \in {BLACK, ISORT}
                   THEN IF Len(cmd) > 2 /\ cmd[3] = <<"-", "-", "c", "h", "e", "c", "k">>
                        THEN 3 ELSE 2
                   ELSE 1
    IN  SubSeq(cmd, skipped + 1, Len(cmd))

\* The modules that the located configuration file gives: the project
\* modules, the extra-modules and the test modules.
ConfiguredModules ==
    LET project == Elements(get_project_modules_from_toml(LocatedConfig).val)
        extra == PluginSetting(LocatedConfig, "extra-modules")
        tests == PluginSetting(LocatedConfig, "test-modules")
    IN  project
        \cup (IF extra.t = "none" THEN {}
              ELSE {extra.v[i].v : i \in 1..Len(extra.v)})
        \cup (IF IsStrList(tests)
              THEN {tests.v[i].v : i \in 1..Len(tests.v)}
              ELSE project)

\* C11: lint and format whose subject (the files given, or the configured
\* modules when files is None or empty) is empty return the empty list and
\* execute nothing, and every invocation of mypy, flake8, pylint, black or
\* isort, by whatever task, has a path argument.
C11_NoToolWithoutPaths ==
    /\ \A i \in 1..Len(invoked) :
           invoked[i].cmd[1] \in {MYPY, FLAKE8, PYLINT, BLACK, ISORT}
               => PathArguments(invoked[i].cmd) # <<>>
    /\ Done("lint") \/ Done("format") =>
           (ret.err = "none" /\ frame.files.list = <<>> /\ ConfiguredModules = {}
            => ret.val = <<>> /\ invoked = <<>>)

\* lint without files where the located configuration gives no module.
C11_Witness ==
    /\ Done("lint")
    /\ frame.files.none
    /\ Len(lookups) > 0
    /\ ConfiguredModules = {}
    /\ ret.err = "none"
    /\ ret.val = <<>>
    /\ invoked = <<>>

====
